---- MODULE Spec2Model ----
(***************************************************************************)
(* Model of the document question-answering backend: the upload handler,   *)
(* the background ingestion (main.py, rag.py) with its task registry and   *)
(* vector store, the status and summary handlers and the cross-collection  *)
(* query.  upload_file and query_document contain no await, so each is one *)
(* atomic step of the event loop; process_and_update_status suspends only  *)
(* at the summarization call, so it is two steps.                          *)
(***************************************************************************)
EXTENDS Integers, Sequences, FiniteSets, TLC

\* ---------------------------------------------------------------- bounds
MaxTasks == 2
MaxSentences == 2
MaxScore == 2
MaxRuns == 2
MaxPercent == 100
MaxQuestions == 3
MaxSources == 2

\* ------------------------------------------------------ program constants
TopK == 4
WindowSize == 5

TaskIds == 1..MaxTasks
NoTask == 0
FileNames == {"a.txt", "b.pdf"}
\* a similarity score s stands for the number s / MaxScore
Scores == 1..MaxScore

VARIABLES
    PROCESSING_STATUS,  \* main.py:33, the dict from task id to record
    background,         \* main.py:57, the scheduled process_and_update_status calls and their position
    collections,        \* rag.py:53, the vector store's collections in list_collections order
    received,           \* main.py:59, the task ids clients got back from upload_file
    request,            \* the HTTP request the last step handled, with what its collaborators did
    response,           \* the response that step sent
    ui                  \* frontend.py:262-346, the page's source being rendered

vars == <<PROCESSING_STATUS, background, collections, received, request, response, ui>>

\* request and response record the exchange a handler's step has made, for the
\* state that step leads to; the next step (Receive) is the client reading the
\* response, which changes nothing in the server, so that every interleaving of
\* handlers and background steps is still there
NoExchange == [op |-> "none"]
Idle == response = NoExchange

\* d[k] = v, as a Python dict assignment (the key is added when missing)
Put(d, k, v) == [x \in DOMAIN d \cup {k} |-> IF x = k THEN v ELSE d[x]]

Min(a, b) == IF a < b THEN a ELSE b

\* ------------------------------------------------------------ names, paths
\* a file name is a pair: the prefix put in front of it (NoTask: none) and the name
Filename(name) == [task |-> NoTask, name |-> name]
\* os.path.join(UPLOAD_FOLDER, f"{task_id}_{file.filename}")
FilePath(task_id, name) == [dir |-> "uploads", task |-> task_id, name |-> name]
\* os.path.basename(file_path)
Basename(file_path) == [task |-> file_path.task, name |-> file_path.name]
\* mutant of CollectionName: one name for every task
CollectionName_shared(task_id) == [prefix |-> "doc_", id |-> NoTask]

\* f"doc_{task_id}"
CollectionName(task_id) == [prefix |-> "doc_", id |-> task_id]
StartsWithDoc(collection_name) == collection_name.prefix = "doc_"

\* str(e) of the exception a failing step raises
ErrorText(step) == [raised_by |-> step]

\* mutant of uuid4: the identifier counts the scheduled tasks only, so the id of
\* an upload that failed is handed out again
uuid4_reused == Cardinality(DOMAIN background) + 1

\* uuid.uuid4(): an identifier no earlier upload got (taken in order, the ids
\* being interchangeable)
uuid4 == Cardinality(DOMAIN PROCESSING_STATUS) + 1

\* ------------------------------------------------------------------ upload
\* mutant of ProcessingRecord: another status literal
ProcessingRecord_queued(name) == [status |-> "queued", file |-> Filename(name)]

ProcessingRecord(name) == [status |-> "processing", file |-> Filename(name)]

FailedRecord(error) == [status |-> "failed", error |-> error]

upload_file(name, save) ==
    LET task_id == uuid4
        file_path == FilePath(task_id, name)
    IN  /\ Idle
        /\ task_id \in TaskIds
        /\ request' = [op |-> "upload", filename |-> name, save |-> save]
        /\ IF save = "ok"
           THEN /\ PROCESSING_STATUS' =
                       Put(PROCESSING_STATUS, task_id, ProcessingRecord(name))
                /\ background' = Put(background, task_id,
                       [pc |-> "scheduled", file_path |-> file_path, runs |-> 1,
                        fault |-> "none", summary_fault |-> "none",
                        sentences |-> 0])
                /\ received' = received \cup {task_id}
                /\ response' = [op |-> "upload", code |-> 200,
                                body |-> [task_id |-> task_id]]
           ELSE /\ PROCESSING_STATUS' =
                       Put(PROCESSING_STATUS, task_id, FailedRecord(ErrorText("save")))
                /\ UNCHANGED <<background, received>>
                /\ response' = [op |-> "upload", code |-> 500,
                                body |-> [detail |-> ErrorText("save")]]
        /\ UNCHANGED <<collections, ui>>

Upload == \E name \in FileNames, save \in {"ok", "raise"} : upload_file(name, save)

\* --------------------------------------------------------------- ingestion
HasCollection(store, collection_name) ==
    \E i \in 1..Len(store) : store[i].name = collection_name

\* mutant of get_or_create_collection: a collection is created on every call
get_or_create_collection_always_create(store, task_id) ==
    Append(store, [name |-> CollectionName(task_id), chunks |-> <<>>])

\* chroma_client.get_or_create_collection(name=f"doc_{task_id}")
get_or_create_collection(store, task_id) ==
    IF HasCollection(store, CollectionName(task_id))
    THEN store
    ELSE Append(store, [name |-> CollectionName(task_id), chunks |-> <<>>])

\* the sentences around sentence i that go into its node's "window"
Window(i, sentences) ==
    {j \in 1..sentences : j >= i - WindowSize /\ j <= i + WindowSize}

\* mutant of Nodes: one node more, for the document as a whole
Nodes_with_document(file_path, sentences) ==
    [i \in 1..(sentences + 1) |->
        [file_path |-> file_path, sentence |-> i, window |-> Window(i, sentences)]]

\* SentenceWindowNodeParser: one node per sentence, tagged with the file's
\* path and carrying the sentences around it
Nodes(file_path, sentences) ==
    [i \in 1..sentences |->
        [file_path |-> file_path, sentence |-> i, window |-> Window(i, sentences)]]

\* VectorStoreIndex(nodes, storage_context): the first `stored` nodes get into
\* the collection (all of them unless embedding fails on the way)
AddNodes(store, task_id, nodes, stored) ==
    [i \in 1..Len(store) |->
        IF store[i].name = CollectionName(task_id)
        THEN [store[i] EXCEPT !.chunks = @ \o SubSeq(nodes, 1, stored)]
        ELSE store[i]]

SummaryFallback ==
    "Summary generation failed. The document has been processed successfully but no summary is available."

\* generate_summary: the model's text, or the fallback when the call raises
generate_summary(summary_fault) ==
    IF summary_fault = "raise" THEN SummaryFallback ELSE "summary"

CompletedRecord(file_path, task_id, summary) ==
    [status |-> "completed", summary |-> summary,
     file |-> Basename(file_path), index_id |-> task_id]

\* mutant of ProcessDocumentExcept: the message is dropped
ProcessDocumentExcept_no_error(error) ==
    [kind |-> "return", value |-> [status |-> "failed"]]

\* the except clause of process_document
ProcessDocumentExcept(error) == [kind |-> "return", value |-> FailedRecord(error)]

NoContent == [message |-> "No content could be extracted from the document"]

\* process_document up to the summarization call: the store it leaves and,
\* unless it got as far as the call, what it returns
\* fault: the step that raises ("none": no step), "empty": the reader returns no documents
process_document_index(file_path, task_id, fault, sentences, stored) ==
    IF fault = "collection"
    THEN [store |-> collections, result |-> ProcessDocumentExcept(ErrorText(fault))]
    ELSE LET created == get_or_create_collection(collections, task_id) IN
         IF fault = "extract"
         THEN [store |-> created, result |-> ProcessDocumentExcept(ErrorText(fault))]
         ELSE IF fault = "empty"
         THEN [store |-> created,
               result |-> [kind |-> "return", value |-> FailedRecord(NoContent)]]
         ELSE IF fault = "window"
         THEN [store |-> created, result |-> ProcessDocumentExcept(ErrorText(fault))]
         ELSE IF fault = "embed"
         THEN [store |-> AddNodes(created, task_id, Nodes(file_path, sentences), stored),
               result |-> ProcessDocumentExcept(ErrorText(fault))]
         ELSE [store |-> AddNodes(created, task_id, Nodes(file_path, sentences),
                                  Len(Nodes(file_path, sentences))),
               result |-> [kind |-> "await"]]

\* mutant of process_document_summary: a failed summarization fails the task
process_document_summary_strict(file_path, task_id, summary_fault) ==
    IF summary_fault = "raise"
    THEN ProcessDocumentExcept(ErrorText("summary"))
    ELSE [kind |-> "return",
          value |-> CompletedRecord(file_path, task_id, generate_summary(summary_fault))]

\* process_document from the summarization call on
process_document_summary(file_path, task_id, summary_fault) ==
    [kind |-> "return",
     value |-> CompletedRecord(file_path, task_id, generate_summary(summary_fault))]

\* process_and_update_status once process_document is over: the record it stores
StoredResult(result) ==
    IF result.kind = "return" THEN result.value ELSE FailedRecord(result.error)

\* mutant of UpdateStatus: only a "completed" result is stored
UpdateStatus_only_completed(task_id, result) ==
    IF StoredResult(result).status = "completed"
    THEN Put(PROCESSING_STATUS, task_id, StoredResult(result))
    ELSE PROCESSING_STATUS

\* mutant of UpdateStatus: the result's fields are written into the record
\* that is there, as dict.update would
UpdateStatus_merge(task_id, result) ==
    LET new == StoredResult(result)
        old == IF task_id \in DOMAIN PROCESSING_STATUS
               THEN PROCESSING_STATUS[task_id] ELSE new
    IN  Put(PROCESSING_STATUS, task_id,
            [k \in DOMAIN old \cup DOMAIN new |->
                IF k \in DOMAIN new THEN new[k] ELSE old[k]])

\* the registry after process_and_update_status has stored its result
UpdateStatus(task_id, result) ==
    Put(PROCESSING_STATUS, task_id, StoredResult(result))

Faults == {"none", "collection", "extract", "empty", "window", "embed"}

\* process_and_update_status, from its start to the summarization call or its end
IngestStart(task_id) ==
    /\ Idle
    /\ task_id \in DOMAIN background
    /\ background[task_id].pc = "scheduled"
    /\ \E fault \in Faults, sentences \in 1..MaxSentences :
       \E stored \in (IF fault = "embed" THEN 0..(sentences - 1) ELSE {sentences}) :
          LET r == process_document_index(background[task_id].file_path, task_id,
                                          fault, sentences, stored)
          IN  /\ collections' = r.store
              /\ IF r.result.kind = "await"
                 THEN /\ background' = [background EXCEPT ![task_id].pc = "summarizing",
                                                         ![task_id].sentences = sentences]
                      /\ UNCHANGED PROCESSING_STATUS
                 ELSE /\ background' = [background EXCEPT ![task_id].pc = "done",
                                                         ![task_id].fault = fault]
                      /\ PROCESSING_STATUS' = UpdateStatus(task_id, r.result)
    /\ UNCHANGED <<received, request, response, ui>>

\* process_and_update_status, from the summarization call's end to its own
IngestFinish(task_id) ==
    /\ Idle
    /\ task_id \in DOMAIN background
    /\ background[task_id].pc = "summarizing"
    /\ \E summary_fault \in {"none", "raise"} :
          LET result == process_document_summary(background[task_id].file_path,
                                                 task_id, summary_fault)
          IN  /\ background' = [background EXCEPT ![task_id].pc = "done",
                                                  ![task_id].summary_fault = summary_fault]
              /\ PROCESSING_STATUS' = UpdateStatus(task_id, result)
    /\ UNCHANGED <<collections, received, request, response, ui>>

\* ---------------------------------------------------------- status, summary
\* mutant of check_task_status: an unknown id is answered like a failed task
check_task_status_failed(task_id) ==
    IF task_id \in DOMAIN PROCESSING_STATUS
    THEN PROCESSING_STATUS[task_id]
    ELSE [status |-> "failed", error |-> [message |-> "Invalid task ID"]]

check_task_status(task_id) ==
    IF task_id \in DOMAIN PROCESSING_STATUS
    THEN PROCESSING_STATUS[task_id]
    ELSE [status |-> "not_found", error |-> [message |-> "Invalid task ID"]]

\* mutant of AfterRead: a read of a task still "processing" marks it failed
AfterRead_expiring(task_id) ==
    [t \in DOMAIN PROCESSING_STATUS |->
        IF t = task_id /\ PROCESSING_STATUS[t].status = "processing"
        THEN FailedRecord(ErrorText("timeout"))
        ELSE PROCESSING_STATUS[t]]

\* the registry after check_task_status or get_document_summary has run for
\* task_id: neither assigns to it
AfterRead(task_id) == PROCESSING_STATUS

Poll ==
    \E task_id \in TaskIds :
        /\ Idle
        /\ request' = [op |-> "check_task_status", task_id |-> task_id]
        /\ response' = [op |-> "check_task_status", code |-> 200,
                        body |-> check_task_status(task_id)]
        /\ PROCESSING_STATUS' = AfterRead(task_id)
        /\ UNCHANGED <<background, collections, received, ui>>

\* d.get(k, default)
Get(d, k, default) == IF k \in DOMAIN d THEN d[k] ELSE default

\* mutant of get_document_summary: a task that is not completed is answered
\* like an unknown one
get_document_summary_404(task_id) ==
    IF task_id \in DOMAIN PROCESSING_STATUS
       /\ PROCESSING_STATUS[task_id].status = "completed"
    THEN [code |-> 200,
          body |-> [summary |-> PROCESSING_STATUS[task_id].summary,
                    file |-> PROCESSING_STATUS[task_id].file]]
    ELSE [code |-> 404, body |-> [detail |-> "Task ID not found"]]

get_document_summary(task_id) ==
    IF task_id \in DOMAIN PROCESSING_STATUS
       /\ PROCESSING_STATUS[task_id].status = "completed"
    THEN [code |-> 200,
          body |-> [summary |-> Get(PROCESSING_STATUS[task_id], "summary",
                                    "No summary available"),
                    file |-> Get(PROCESSING_STATUS[task_id], "file",
                                 Filename("Unknown file"))]]
    ELSE IF task_id \in DOMAIN PROCESSING_STATUS
    THEN [code |-> 200,
          body |-> [error |-> [not_completed |-> PROCESSING_STATUS[task_id].status]]]
    ELSE [code |-> 404, body |-> [detail |-> "Task ID not found"]]

Summary ==
    \E task_id \in TaskIds :
        /\ Idle
        /\ request' = [op |-> "summary", task_id |-> task_id]
        /\ response' = [op |-> "summary"] @@ get_document_summary(task_id)
        /\ PROCESSING_STATUS' = AfterRead(task_id)
        /\ UNCHANGED <<background, collections, received, ui>>

\* ------------------------------------------------------------------- query
\* the sequences of at most n elements of S
SeqsUpTo(S, n) == UNION {[1..k -> S] : k \in 0..n}

\* what the retriever can return for a collection: at most top_k of its chunks,
\* each with a score (the retriever is modelled returning the first chunks
\* stored: which chunks it picks plays no part in the ranking)
RetrievedNodes(collection, top_k) ==
    {[i \in 1..Len(scores) |->
         [file_path |-> collection.chunks[i].file_path,
          text |-> [collection |-> collection.name,
                    sentence |-> collection.chunks[i].sentence],
          score |-> scores[i]]] :
     scores \in SeqsUpTo(Scores, Min(top_k, Len(collection.chunks)))}

\* what the collaborators can do with one collection: load, retrieve or
\* synthesize raises, or the retrieved nodes are answered from
Outcomes(collection) ==
    {[fault |-> f, nodes |-> <<>>] : f \in {"load", "retrieve"}}
    \cup {[fault |-> "none", nodes |-> n] : n \in RetrievedNodes(collection, TopK)}
    \cup {[fault |-> "synthesize", nodes |-> n] :
            n \in RetrievedNodes(collection, TopK) \ {<<>>}}

RECURSIVE SumScores(_)
SumScores(nodes) ==
    IF nodes = <<>> THEN 0 ELSE nodes[1].score + SumScores(Tail(nodes))

\* mutant of AvgSimilarity: the sum is divided by the number of nodes asked for
AvgSimilarity_topk(nodes) == [num |-> SumScores(nodes), den |-> TopK]

\* sum(node.score for node in nodes) / len(nodes), kept as a fraction
AvgSimilarity(nodes) == [num |-> SumScores(nodes), den |-> Len(nodes)]

\* a < b for two such fractions
ScoreLess(a, b) == a.num * b.den < b.num * a.den

Sources(nodes) ==
    [i \in 1..Len(nodes) |->
        [source |-> nodes[i].file_path, text |-> nodes[i].text, score |-> nodes[i].score]]

\* response.response of the synthesizer run over one collection's nodes
Synthesized(collection_name) == [text |-> "answer", from |-> collection_name]

Candidate(collection, nodes) ==
    [answer |-> Synthesized(collection.name),
     sources |-> Sources(nodes),
     avg_score |-> AvgSimilarity(nodes),
     collection |-> collection.name]

\* mutant of NoNodes: a collection that retrieved nothing is not skipped
NoNodes_never(nodes) == FALSE

\* `not nodes`
NoNodes(nodes) == nodes = <<>>

\* the loop of query_document over collections[i..]: the candidates it
\* collects, unless a collection raises
RECURSIVE FanOut(_, _, _, _)
FanOut(store, outcomes, i, best_results) ==
    IF i > Len(store)
    THEN [kind |-> "done", best_results |-> best_results]
    ELSE IF ~StartsWithDoc(store[i].name)
    THEN FanOut(store, outcomes, i + 1, best_results)
    ELSE IF outcomes[i].fault \in {"load", "retrieve"}
    THEN [kind |-> "raise", error |-> ErrorText(<<outcomes[i].fault, store[i].name>>)]
    ELSE IF NoNodes(outcomes[i].nodes)
    THEN FanOut(store, outcomes, i + 1, best_results)
    ELSE IF outcomes[i].fault = "synthesize"
    THEN [kind |-> "raise", error |-> ErrorText(<<outcomes[i].fault, store[i].name>>)]
    ELSE FanOut(store, outcomes, i + 1,
                Append(best_results, Candidate(store[i], outcomes[i].nodes)))

\* mutant of InsertSorted: x goes in front of the elements equal to it
RECURSIVE InsertSorted_unstable(_, _)
InsertSorted_unstable(sorted, x) ==
    IF sorted = <<>> THEN <<x>>
    ELSE IF ~ScoreLess(x.avg_score, sorted[1].avg_score)
    THEN <<x>> \o sorted
    ELSE <<sorted[1]>> \o InsertSorted_unstable(Tail(sorted), x)

\* x put into a list sorted by descending avg_score, behind every element
\* that is not smaller
RECURSIVE InsertSorted(_, _)
InsertSorted(sorted, x) ==
    IF sorted = <<>> THEN <<x>>
    ELSE IF ScoreLess(sorted[1].avg_score, x.avg_score)
    THEN <<x>> \o sorted
    ELSE <<sorted[1]>> \o InsertSorted(Tail(sorted), x)

\* best_results.sort(key=lambda x: x["avg_score"], reverse=True): stable
RECURSIVE SortByAvgScore(_)
SortByAvgScore(results) ==
    IF results = <<>> THEN <<>>
    ELSE InsertSorted(SortByAvgScore(SubSeq(results, 1, Len(results) - 1)),
                      results[Len(results)])

RECURSIVE AllSources(_)
AllSources(results) ==
    IF results = <<>> THEN <<>>
    ELSE results[1].sources \o AllSources(Tail(results))

\* mutant of BestResult: the sources of every candidate are returned
BestResult_fused(best_results) ==
    [answer |-> SortByAvgScore(best_results)[1].answer,
     sources |-> AllSources(SortByAvgScore(best_results))]

\* the sort of best_results and the response built from its first element
BestResult(best_results) ==
    [answer |-> SortByAvgScore(best_results)[1].answer,
     sources |-> SortByAvgScore(best_results)[1].sources]

\* mutant of NoCollections: the early return is never taken
NoCollections_never(store) == FALSE

\* `not collections`
NoCollections(store) == store = <<>>

FixedAnswer(text) == [text |-> text, from |-> CollectionName(NoTask)]

ErrorAnswer(prefix, error) == [text |-> prefix, error |-> error]

\* mutant of ErrorResult: the sources are left out of the payload
ErrorResult_no_sources(error) ==
    [answer |-> ErrorAnswer("Error during document retrieval: ", error)]

\* the except clause of query_document
ErrorResult(error) ==
    [answer |-> ErrorAnswer("Error during document retrieval: ", error),
     sources |-> <<>>]

\* query_document(question): listing is what list_collections does
query_document(store, listing, outcomes) ==
    IF listing = "raise"
    THEN ErrorResult(ErrorText("list"))
    ELSE IF NoCollections(store)
    THEN [answer |-> FixedAnswer("No documents have been uploaded yet."),
          sources |-> <<>>]
    ELSE LET fan == FanOut(store, outcomes, 1, <<>>) IN
         IF fan.kind = "raise"
         THEN ErrorResult(fan.error)
         ELSE IF fan.best_results = <<>>
         THEN [answer |-> FixedAnswer("No relevant information found in the uploaded documents."),
               sources |-> <<>>]
         ELSE BestResult(fan.best_results)

\* the sequences of outcomes, one per collection of the store
RECURSIVE OutcomeSeqs(_)
OutcomeSeqs(store) ==
    IF store = <<>> THEN {<<>>}
    ELSE {Append(o, x) : o \in OutcomeSeqs(SubSeq(store, 1, Len(store) - 1)),
                         x \in Outcomes(store[Len(store)])}

\* ask_question, given what query_document did: its except clause answers
\* for a query_document that raises (which query_document, catching every
\* exception itself, never does)
ask_question(result) ==
    IF "raised" \in DOMAIN result
    THEN [answer |-> ErrorAnswer("Error: ", result.raised), sources |-> <<>>]
    ELSE result

Ask ==
    \E listing \in {"ok", "raise"} :
    \E outcomes \in (IF listing = "ok" THEN OutcomeSeqs(collections) ELSE {<<>>}) :
        /\ Idle
        /\ request' = [op |-> "ask", listing |-> listing, outcomes |-> outcomes]
        /\ response' = [op |-> "ask", code |-> 200,
                        body |-> ask_question(
                                    query_document(collections, listing, outcomes))]
        /\ UNCHANGED <<PROCESSING_STATUS, background, collections, received, ui>>

\* the client has read the response
\* ------------------------------------------------------------- the page
\* the frontend compares a source's score with 0.7 and 0.5; scores are counted
\* here in hundredths
HighThreshold == 70
LowThreshold == 50
Hundredths == 0..MaxPercent

\* no answer on the page
NoPage == [pc |-> "start"]

\* mutant of RelevanceClass: a score on a threshold falls in the lower class
RelevanceClass_inclusive(score) ==
    LET below_high == IF score <= HighThreshold THEN "relevance-medium"
                                                ELSE "relevance-high"
    IN  IF score <= LowThreshold THEN "relevance-low" ELSE below_high

\* relevance_class after the two ifs
RelevanceClass(score) ==
    LET below_high == IF score < HighThreshold THEN "relevance-medium"
                                               ELSE "relevance-high"
    IN  IF score < LowThreshold THEN "relevance-low" ELSE below_high

\* the answer's source is rendered below the answer
RenderAnswer ==
    /\ ui.pc = "received"
    /\ ui' = [ui EXCEPT !.pc = "answered",
                        !.answer_class = RelevanceClass(ui.score)]
    /\ UNCHANGED <<PROCESSING_STATUS, background, collections, received,
                   request, response>>

\* the script runs again and renders the source with the chat history
RenderHistory ==
    /\ ui.pc = "answered"
    /\ ui' = [ui EXCEPT !.pc = "history",
                        !.history_class = RelevanceClass(ui.score)]
    /\ UNCHANGED <<PROCESSING_STATUS, background, collections, received,
                   request, response>>

\* the page has received an answer with a source of some score
InitPage ==
    /\ PROCESSING_STATUS = <<>>
    /\ background = <<>>
    /\ collections = <<>>
    /\ received = {}
    /\ request = NoExchange
    /\ response = NoExchange
    /\ \E score \in Hundredths :
          ui = [pc |-> "received", score |-> score,
                answer_class |-> "none", history_class |-> "none"]

NextPage ==
    \/ RenderAnswer
    \/ RenderHistory

\* the rendering of one source
SpecPage == InitPage /\ [][NextPage]_vars

\* --------------------------------------------------- the page's statistics
\* sum(s['score'] for s in sources) / len(sources), kept as a fraction
AvgSourceRelevance(sources) == [num |-> SumScores(sources), den |-> Len(sources)]

\* (current_avg * (question_count - 1) + avg_source_relevance) / question_count
RunningAverage(current_avg, question_count, avg_source_relevance) ==
    [num |-> current_avg.num * (question_count - 1) * avg_source_relevance.den
               + avg_source_relevance.num * current_avg.den,
     den |-> current_avg.den * avg_source_relevance.den * question_count]

\* the sources an answer can come with
SourceLists == SeqsUpTo({[score |-> score] : score \in Scores}, MaxSources)

\* the statistics of a new session; `answered` keeps the sources of the
\* answers the session got, in order
NewSession ==
    [pc |-> "session", total_questions |-> 0,
     avg_relevance |-> [num |-> 0, den |-> 1], answered |-> <<>>]

\* a question is answered with status 200 and the statistics are updated
AnswerQuestion ==
    /\ ui.pc = "session"
    /\ ui.total_questions < MaxQuestions
    /\ \E sources \in SourceLists :
          LET question_count == ui.total_questions + 1
          IN  ui' = [ui EXCEPT
                       !.total_questions = question_count,
                       !.avg_relevance =
                           IF sources # <<>>
                           THEN RunningAverage(@, question_count,
                                               AvgSourceRelevance(sources))
                           ELSE @,
                       !.answered = Append(@, sources)]
    /\ UNCHANGED <<PROCESSING_STATUS, background, collections, received,
                   request, response>>

\* the "Clear All" button
ClearAll ==
    /\ ui.pc = "session"
    /\ ui.total_questions > 0
    /\ ui' = NewSession
    /\ UNCHANGED <<PROCESSING_STATUS, background, collections, received,
                   request, response>>

InitSession ==
    /\ PROCESSING_STATUS = <<>>
    /\ background = <<>>
    /\ collections = <<>>
    /\ received = {}
    /\ request = NoExchange
    /\ response = NoExchange
    /\ ui = NewSession

NextSession ==
    \/ AnswerQuestion
    \/ ClearAll

\* the questions of one session of the page
SpecSession == InitSession /\ [][NextSession]_vars

Receive ==
    /\ ~Idle
    /\ request' = NoExchange
    /\ response' = NoExchange
    /\ UNCHANGED <<PROCESSING_STATUS, background, collections, received, ui>>

Init ==
    /\ PROCESSING_STATUS = <<>>
    /\ background = <<>>
    /\ collections = <<>>
    /\ received = {}
    /\ request = NoExchange
    /\ response = NoExchange
    /\ ui = NoPage

\* the task lifecycle: uploads, their background ingestion, and the polling
NextTasks ==
    \/ Upload
    \/ \E task_id \in TaskIds : IngestStart(task_id)
    \/ \E task_id \in TaskIds : IngestFinish(task_id)
    \/ Poll
    \/ Summary
    \/ Receive

SpecTasks == Init /\ [][NextTasks]_vars

\* the task lifecycle under the event loop's scheduling: a response that is
\* ready is delivered, and a background task that is ready to run again and
\* again (the loop's ready queue is first in, first out) does run
SpecTasksFair ==
    /\ SpecTasks
    /\ WF_vars(Receive)
    /\ \A task_id \in TaskIds :
          /\ SF_vars(IngestStart(task_id))
          /\ SF_vars(IngestFinish(task_id))

\* ------------------------------------------------- the upload page's loop
max_retries == 60

\* what reaches the page of a response: the response as sent, a status code
\* other than 200, a body without "status", or no response at all (the
\* request raises)
Transports == {"ok", "bad_status", "no_status", "raise"}

\* the page has the task id of an upload and enters the loop
ClientStart ==
    /\ ui = NoPage
    /\ \E task_id \in received :
          ui' = [pc |-> "polling", task_id |-> task_id, retries |-> 0,
                 polls |-> 0, last |-> "none", document_info |-> <<>>]
    /\ UNCHANGED <<PROCESSING_STATUS, background, collections, received,
                   request, response>>

\* the branch one iteration of the loop takes
StatusBranch(transport, status_data) ==
    IF transport = "raise" THEN "raised"
    ELSE IF transport = "bad_status" THEN "check_failed"
    ELSE IF transport = "no_status" THEN "status_error"
    ELSE IF status_data.status = "completed" THEN "completed"
    ELSE IF status_data.status = "failed" THEN "failed"
    ELSE "still_processing"

\* mutant of NextRetries: the counter is left as it is
NextRetries_unchanged(branch, retries) == retries

\* retries after an iteration that took the branch
NextRetries(branch, retries) ==
    IF branch = "still_processing" THEN retries + 1 ELSE retries

\* where the page is after an iteration: in the loop, past it with the
\* timeout message, or past it by a break
AfterIteration(branch, retries) ==
    IF branch # "still_processing" THEN branch
    ELSE IF retries < max_retries THEN "polling"
    ELSE "timed_out"

\* one iteration of the loop: the status request, check_task_status answering
\* it, and what the page makes of the answer
ClientPoll ==
    /\ Idle
    /\ ui.pc = "polling"
    /\ ui.retries < max_retries
    /\ \E transport \in Transports :
          LET status_data == check_task_status(ui.task_id)
              branch == StatusBranch(transport, status_data)
              retries == NextRetries(branch, ui.retries)
          IN  /\ request' = [op |-> "check_task_status", task_id |-> ui.task_id]
              /\ response' = [op |-> "check_task_status", code |-> 200,
                              body |-> status_data]
              /\ ui' = [ui EXCEPT !.pc = AfterIteration(branch, retries),
                                  !.retries = retries,
                                  !.polls = @ + 1,
                                  !.last = branch,
                                  !.document_info =
                                      IF branch = "completed"
                                      THEN <<[task_id |-> ui.task_id,
                                              filename |-> status_data.file]>>
                                      ELSE @]
    /\ PROCESSING_STATUS' = AfterRead(ui.task_id)
    /\ UNCHANGED <<background, collections, received>>

\* the summary request the "completed" branch makes before its break
ClientSummary ==
    /\ Idle
    /\ ui.pc = "completed"
    /\ \E transport \in {"ok", "raise"} :
          LET answer == get_document_summary(ui.task_id)
              summary == IF transport = "ok" /\ answer.code = 200
                         THEN Get(answer.body, "summary", "No summary available")
                         ELSE "Summary not available"
          IN  /\ request' = [op |-> "summary", task_id |-> ui.task_id]
              /\ response' = [op |-> "summary"] @@ answer
              /\ ui' = [ui EXCEPT !.pc = "listed",
                                  !.document_info =
                                      <<[task_id |-> @[1].task_id,
                                         filename |-> @[1].filename,
                                         summary |-> summary]>>]
    /\ PROCESSING_STATUS' = AfterRead(ui.task_id)
    /\ UNCHANGED <<background, collections, received>>

NextClient ==
    \/ NextTasks
    \/ ClientStart
    \/ ClientPoll
    \/ ClientSummary

\* the task lifecycle with one page polling for one of its uploads
SpecClient == Init /\ [][NextClient]_vars

\* process_and_update_status called once more for a task it has already
\* written the result of (nothing in the function looks at the record it replaces)
CallAgain(task_id) ==
    /\ Idle
    /\ task_id \in DOMAIN background
    /\ background[task_id].pc = "done"
    /\ background[task_id].runs < MaxRuns
    /\ background' = [background EXCEPT ![task_id].pc = "scheduled",
                                        ![task_id].runs = @ + 1,
                                        ![task_id].fault = "none",
                                        ![task_id].summary_fault = "none"]
    /\ UNCHANGED <<PROCESSING_STATUS, collections, received, request, response, ui>>

NextDirect ==
    \/ NextTasks
    \/ \E task_id \in TaskIds : CallAgain(task_id)

\* the task lifecycle, with process_and_update_status also called directly
SpecDirect == Init /\ [][NextDirect]_vars

\* the whole service
Next ==
    \/ NextTasks
    \/ Ask

Spec == Init /\ [][Next]_vars

\* ================================================================= claims
Terminal == {"completed", "failed"}

\* the tasks whose background ingestion has run to its end
Done == {t \in DOMAIN background : background[t].pc = "done"}

\* C1: in every step, every record stays in the registry, and a record's
\* status changes only from "processing" to "completed" or "failed"; a
\* terminal status never changes again.
C1_StatusMonotonic ==
    [][\A t \in DOMAIN PROCESSING_STATUS :
          /\ t \in DOMAIN PROCESSING_STATUS'
          /\ PROCESSING_STATUS'[t].status # PROCESSING_STATUS[t].status
               => /\ PROCESSING_STATUS[t].status = "processing"
                  /\ PROCESSING_STATUS'[t].status \in Terminal]_vars

\* two uploads have been ingested, one to "completed" and one to "failed",
\* and a status request has been answered since
C1_Witness ==
    /\ \E t \in Done : PROCESSING_STATUS[t].status = "completed"
    /\ \E t \in Done : PROCESSING_STATUS[t].status = "failed"
    /\ response.op = "check_task_status"

\* C2: a run of process_and_update_status for a task whose record is terminal
\* leaves the record as it was.
C2_TerminalWriteIsNoOp ==
    [][\A t \in DOMAIN PROCESSING_STATUS :
          PROCESSING_STATUS[t].status \in Terminal
            => PROCESSING_STATUS'[t] = PROCESSING_STATUS[t]]_vars

\* C3: the step in which upload_file hands out a task id leaves the
\* "processing" record and the ingestion scheduled, not started; the status
\* of a handed-out id is always "processing", "completed" or "failed"; and
\* its record changes only in the step that ends its background ingestion.
C3_ProcessingBeforeTerminal ==
    [][/\ \A t \in received' \ received :
             /\ response'.op = "upload"
             /\ response'.body = [task_id |-> t]
             /\ t \in DOMAIN PROCESSING_STATUS'
             /\ PROCESSING_STATUS'[t].status = "processing"
             /\ background'[t].pc = "scheduled"
       /\ \A t \in received' :
             check_task_status(t)'.status \in {"processing", "completed", "failed"}
       /\ \A t \in received :
             PROCESSING_STATUS'[t] # PROCESSING_STATUS[t]
               => /\ PROCESSING_STATUS[t].status = "processing"
                  /\ background[t].pc # "done"
                  /\ background'[t].pc = "done"]_vars

\* a client is told "processing" for a task whose ingestion waits for its
\* summary, while an earlier task has reached its terminal record
C3_Witness ==
    \E t \in received, u \in received :
        /\ request = [op |-> "check_task_status", task_id |-> t]
        /\ response.body.status = "processing"
        /\ background[t].pc = "summarizing"
        /\ u < t
        /\ PROCESSING_STATUS[u].status = "completed"

RaisingSteps == {"collection", "extract", "window", "embed"}

\* C4: when collection creation, extraction, windowing or embedding raised
\* in a task's ingestion, the ingestion has ended in the ordinary way and the
\* task's record is "failed" with the exception's text as "error".
C4_StepFailureRecorded ==
    \A t \in DOMAIN background :
        /\ background[t].pc \in {"scheduled", "summarizing", "done"}
        /\ background[t].fault \in RaisingSteps
             => /\ background[t].pc = "done"
                /\ PROCESSING_STATUS[t].status = "failed"
                /\ "error" \in DOMAIN PROCESSING_STATUS[t]
                /\ PROCESSING_STATUS[t].error = ErrorText(background[t].fault)

\* of two ingested tasks, one failed in embedding and one in collection creation
C4_Witness ==
    /\ \E t \in Done : background[t].fault = "embed"
    /\ \E t \in Done : background[t].fault = "collection"

\* C5 as stated: a task whose summarization call raised ends "failed".
C5_SummaryFailureFails ==
    \A t \in Done :
        background[t].summary_fault = "raise"
          => PROCESSING_STATUS[t].status = "failed"

\* C5, amended: a task ends "completed" only if no step before the
\* summarization failed, and a task whose summarization call raised ends
\* "completed" with the fixed fallback text as its summary.
C5_CompletedDespiteSummaryFailure ==
    \A t \in Done :
        /\ PROCESSING_STATUS[t].status = "completed"
             => background[t].fault = "none"
        /\ background[t].summary_fault = "raise"
             => /\ PROCESSING_STATUS[t].status = "completed"
                /\ PROCESSING_STATUS[t].summary = SummaryFallback

C5_Witness ==
    \E t \in Done :
        /\ background[t].summary_fault = "raise"
        /\ PROCESSING_STATUS[t].status = "completed"

\* C6: after an ingestion whose reader returned no documents, the task is
\* "failed" and the store holds no collection of that task.
C6_EmptyDocumentLeavesNoCollection ==
    \A t \in Done :
        background[t].fault = "empty"
          => /\ PROCESSING_STATUS[t].status = "failed"
             /\ ~HasCollection(collections, CollectionName(t))

\* ------------------------------------------------------- claims on the query
\* the store as the request being answered found it: collections are only
\* ever added behind the existing ones, each filled in the step that adds it
AskStore == SubSeq(collections, 1, Len(request.outcomes))

Asked == request.op = "ask" /\ request.listing = "ok"

\* collection i raised nothing and retrieved something
Contributes(i) ==
    /\ request.outcomes[i].fault = "none"
    /\ request.outcomes[i].nodes # <<>>

Mean(i) == AvgSimilarity(request.outcomes[i].nodes)

\* no contributing collection scores higher than i, none before i as high
IsBest(i) ==
    /\ Contributes(i)
    /\ \A j \in 1..Len(request.outcomes) :
          Contributes(j) => /\ ~ScoreLess(Mean(i), Mean(j))
                            /\ j < i => ScoreLess(Mean(j), Mean(i))

AnswerOf(i) ==
    [answer |-> Synthesized(AskStore[i].name),
     sources |-> Sources(request.outcomes[i].nodes)]

\* C7: whatever some collections raise, the response to a question is the
\* answer and sources of the best of the collections that raised nothing.
C7_FaultyCollectionSkipped ==
    Asked => \A i \in 1..Len(request.outcomes) :
                 IsBest(i) => response.body = AnswerOf(i)

\* C8: when the fan-out has gone through, the response is the answer and
\* sources of the candidate with the highest mean score, the first
\* enumerated of those with that score.
C8_BestCandidateFirstOnTie ==
    (Asked /\ \A i \in 1..Len(request.outcomes) :
                  request.outcomes[i].fault = "none")
      => \A i \in 1..Len(request.outcomes) :
             IsBest(i) => response.body = AnswerOf(i)

\* two collections contribute with the same mean from different scores, and
\* the first one's answer is the response
C8_Witness ==
    /\ Asked
    /\ Len(request.outcomes) = 2
    /\ Contributes(1) /\ Contributes(2)
    /\ Len(request.outcomes[1].nodes) # Len(request.outcomes[2].nodes)
    /\ ~ScoreLess(Mean(1), Mean(2)) /\ ~ScoreLess(Mean(2), Mean(1))
    /\ response.body = AnswerOf(1)

\* C9: all the sources of a response to a question are chunks of one
\* collection of the store, tagged with one file path.
C9_SourcesFromOneCollection ==
    response.op = "ask" /\ response.body.sources # <<>>
      => \E k \in 1..Len(collections) :
            \A i \in 1..Len(response.body.sources) :
               LET src == response.body.sources[i] IN
               /\ src.text.collection = collections[k].name
               /\ \E c \in 1..Len(collections[k].chunks) :
                     /\ collections[k].chunks[c].sentence = src.text.sentence
                     /\ collections[k].chunks[c].file_path = src.source

\* two collections contributed and the response carries two sources
C9_Witness ==
    /\ Asked
    /\ Len(request.outcomes) = 2
    /\ Contributes(1) /\ Contributes(2)
    /\ Len(response.body.sources) = 2

\* C10: a question asked while the store lists no collection gets the fixed
\* answer "No documents have been uploaded yet." and no sources.
C10_NoDocumentsAnswer ==
    (Asked /\ request.outcomes = <<>>)
      => response = [op |-> "ask", code |-> 200,
                     body |-> [answer |-> FixedAnswer("No documents have been uploaded yet."),
                               sources |-> <<>>]]

C10_Witness ==
    /\ Asked
    /\ request.outcomes = <<>>
    /\ collections = <<>>
    /\ response.op = "ask"

\* C11: a question asked while the store lists collections, each of which
\* retrieves no chunk and raises nothing, gets the fixed answer "No relevant
\* information found in the uploaded documents." and no sources.
C11_NoRelevantInformation ==
    (/\ Asked
     /\ request.outcomes # <<>>
     /\ \A i \in 1..Len(request.outcomes) :
           request.outcomes[i] = [fault |-> "none", nodes |-> <<>>])
      => response.body =
           [answer |-> FixedAnswer("No relevant information found in the uploaded documents."),
            sources |-> <<>>]

\* two collections holding chunks were asked and neither retrieved any
C11_Witness ==
    /\ Asked
    /\ Len(request.outcomes) = 2
    /\ \A i \in 1..2 : /\ request.outcomes[i] = [fault |-> "none", nodes |-> <<>>]
                       /\ AskStore[i].chunks # <<>>
    /\ response.op = "ask"

\* something raised while the question was answered
QueryFailed ==
    /\ request.op = "ask"
    /\ \/ request.listing = "raise"
       \/ \E i \in 1..Len(request.outcomes) : request.outcomes[i].fault # "none"

\* C12: every question is answered with an ordinary payload (status 200, an
\* answer and a list of sources); when the enumeration or any call made for
\* a collection raised, the answer is an error text and the list is empty.
C12_AskNeverRaises ==
    request.op = "ask"
      => /\ response.op = "ask"
         /\ response.code = 200
         /\ DOMAIN response.body = {"answer", "sources"}
         /\ QueryFailed
              => /\ response.body.sources = <<>>
                 /\ DOMAIN response.body.answer = {"text", "error"}

\* the enumeration itself has raised
C12_Witness ==
    /\ request.op = "ask"
    /\ request.listing = "raise"
    /\ response.body.answer.error = ErrorText("list")

\* C13: a summary request is answered with the record's summary and file
\* exactly when the task's record is "completed", with an error payload and
\* status 200 exactly when the task has a record that is not "completed",
\* and with status 404 exactly when the task has no record.
C13_SummaryByStatus ==
    request.op = "summary"
      => LET t == request.task_id
             known == t \in DOMAIN PROCESSING_STATUS
             completed == known /\ PROCESSING_STATUS[t].status = "completed"
         IN  /\ completed <=> /\ response.code = 200
                              /\ DOMAIN response.body = {"summary", "file"}
             /\ completed => /\ response.body.summary = PROCESSING_STATUS[t].summary
                             /\ response.body.file = PROCESSING_STATUS[t].file
             /\ (known /\ ~completed) <=> /\ response.code = 200
                                          /\ DOMAIN response.body = {"error"}
             /\ ~known <=> response.code = 404

\* the summary of a completed task is asked for while another task's record
\* is "failed"
C13_Witness ==
    /\ request.op = "summary"
    /\ request.task_id \in Done
    /\ PROCESSING_STATUS[request.task_id].status = "completed"
    /\ response.code = 200
    /\ \E u \in DOMAIN PROCESSING_STATUS : PROCESSING_STATUS[u].status = "failed"

\* C14: a status request for a known task id is answered with the task's
\* current record, and for an id that has no record with a payload of status
\* "not_found" (status 200, nothing raised); every "completed" record it
\* returns has a "file" and every "failed" record it returns has an "error".
C14_StatusSnapshot ==
    request.op = "check_task_status"
      => LET t == request.task_id
             known == t \in DOMAIN PROCESSING_STATUS
         IN  /\ response.op = "check_task_status"
             /\ response.code = 200
             /\ known => response.body = PROCESSING_STATUS[t]
             /\ ~known => response.body.status = "not_found"
             /\ response.body.status = "completed" => "file" \in DOMAIN response.body
             /\ response.body.status = "failed" => "error" \in DOMAIN response.body

\* the status of an id without a record is asked for after another task has
\* completed
C14_Witness ==
    /\ request.op = "check_task_status"
    /\ request.task_id \notin DOMAIN PROCESSING_STATUS
    /\ response.body.status = "not_found"
    /\ \E u \in DOMAIN PROCESSING_STATUS : PROCESSING_STATUS[u].status = "completed"

\* C15: every ingestion that has been scheduled eventually writes a terminal
\* record: no task stays in "processing" forever.
C15_ScheduledIngestionTerminates ==
    \A task_id \in TaskIds :
        (task_id \in DOMAIN background)
          ~> (/\ task_id \in DOMAIN PROCESSING_STATUS
              /\ PROCESSING_STATUS[task_id].status \in Terminal)

\* two scheduled ingestions are over, one ended by a raising step and the
\* other after its summarization call
C15_Witness ==
    /\ Cardinality(Done) = MaxTasks
    /\ \E t \in Done, u \in Done :
          /\ background[t].fault \in RaisingSteps
          /\ PROCESSING_STATUS[t].status = "failed"
          /\ background[u].fault = "none"
          /\ PROCESSING_STATUS[u].status = "completed"

\* C16 as stated: a source score s is shown as high when s > 0.7, as medium
\* when 0.5 < s <= 0.7 and as low when s <= 0.5, so that 0.7 itself is medium
\* and 0.5 itself is low.
C16_ThresholdIsLowerBucket ==
    ui.pc = "history"
      => /\ ui.answer_class = ui.history_class
         /\ ui.score > HighThreshold <=> ui.answer_class = "relevance-high"
         /\ (ui.score > LowThreshold /\ ui.score <= HighThreshold)
               <=> ui.answer_class = "relevance-medium"
         /\ ui.score <= LowThreshold <=> ui.answer_class = "relevance-low"

\* C16, amended: a source score s is shown as high when s >= 0.7, as medium
\* when 0.5 <= s < 0.7 and as low when s < 0.5, below the answer and in the
\* chat history alike: 0.95 is high, 0.6 medium, 0.3 low, 0.7 itself is high
\* and 0.5 itself is medium.
C16_ThresholdIsUpperBucket ==
    ui.pc = "history"
      => /\ ui.answer_class = ui.history_class
         /\ ui.score >= HighThreshold <=> ui.answer_class = "relevance-high"
         /\ (ui.score >= LowThreshold /\ ui.score < HighThreshold)
               <=> ui.answer_class = "relevance-medium"
         /\ ui.score < LowThreshold <=> ui.answer_class = "relevance-low"
         /\ ui.score = 95 => ui.answer_class = "relevance-high"
         /\ ui.score = 60 => ui.answer_class = "relevance-medium"
         /\ ui.score = 30 => ui.answer_class = "relevance-low"

\* a source whose score is 0.7 has been rendered twice, as high
C16_Witness ==
    /\ ui.pc = "history"
    /\ ui.score = HighThreshold
    /\ ui.answer_class = "relevance-high"
    /\ ui.history_class = "relevance-high"

\* the ingestion of task_id gets past its first part in this step, with its
\* collection already in the store
StartsOnExistingCollection(task_id) ==
    /\ task_id \in DOMAIN background
    /\ background[task_id].pc = "scheduled"
    /\ background'[task_id].pc # "scheduled"
    /\ HasCollection(collections, CollectionName(task_id))

\* C17 as stated: an ingestion whose collection already exists fails (the
\* task ends "failed") and leaves the existing collection as it was.
C17_DuplicateCollectionFails ==
    [][\A task_id \in TaskIds :
          StartsOnExistingCollection(task_id)
            => /\ collections' = collections
               /\ background'[task_id].pc = "done"
               /\ PROCESSING_STATUS'[task_id].status = "failed"]_vars

\* C17, amended: an ingestion whose collection already exists reuses it: no
\* collection is added or renamed, the chunks it stores are appended to the
\* ones the collection has, the other collections are left alone, and the
\* ingestion ends in this step only if one of its own steps failed.
C17_ExistingCollectionReused ==
    [][\A task_id \in TaskIds :
          StartsOnExistingCollection(task_id)
            => /\ Len(collections') = Len(collections)
               /\ \A i \in 1..Len(collections) :
                     /\ collections'[i].name = collections[i].name
                     /\ Len(collections'[i].chunks) >= Len(collections[i].chunks)
                     /\ SubSeq(collections'[i].chunks, 1, Len(collections[i].chunks))
                           = collections[i].chunks
                     /\ collections[i].name # CollectionName(task_id)
                           => collections'[i] = collections[i]
               /\ background'[task_id].pc = "done"
                     => background'[task_id].fault # "none"]_vars

\* a second ingestion of a task has added its chunks to the collection the
\* first one filled: the collection holds more chunks than a document has
C17_Witness ==
    \E task_id \in DOMAIN background :
        /\ background[task_id].runs > 1
        /\ background[task_id].pc = "summarizing"
        /\ \E i \in 1..Len(collections) :
              /\ collections[i].name = CollectionName(task_id)
              /\ Len(collections[i].chunks) > MaxSentences

\* C18: every collection in the store belongs to exactly one task, and that
\* task's record is "completed": no collection exists for a task that is
\* "processing" or "failed".
C18_CollectionsOfCompletedTasks ==
    \A i \in 1..Len(collections) :
        /\ Cardinality({t \in DOMAIN PROCESSING_STATUS :
                            CollectionName(t) = collections[i].name}) = 1
        /\ \A t \in DOMAIN PROCESSING_STATUS :
              CollectionName(t) = collections[i].name
                => PROCESSING_STATUS[t].status = "completed"

\* a record as one write makes it: the "processing" record of upload_file, the
\* "completed" record of process_document, or a "failed" record
WholeRecord(record) ==
    \/ /\ DOMAIN record = {"status", "file"}
       /\ record.status = "processing"
       /\ record.file.task = NoTask
    \/ /\ DOMAIN record = {"status", "summary", "file", "index_id"}
       /\ record.status = "completed"
       /\ record.file.task = record.index_id
    \/ /\ DOMAIN record = {"status", "error"}
       /\ record.status = "failed"

\* C19: whenever a handler reads the registry, also while an ingestion is
\* under way, each record is the whole record of one write; check_task_status
\* returns such a record, and get_document_summary takes summary and file
\* from one "completed" record: no response mixes fields of the "processing"
\* record with fields of the terminal one.
C19_RecordsReplacedWhole ==
    /\ \A t \in DOMAIN PROCESSING_STATUS : WholeRecord(PROCESSING_STATUS[t])
    /\ (request.op = "check_task_status" /\ response.body.status # "not_found")
          => WholeRecord(response.body)
    /\ (request.op = "summary" /\ "summary" \in DOMAIN response.body)
          => /\ WholeRecord(PROCESSING_STATUS[request.task_id])
             /\ response.body.summary = PROCESSING_STATUS[request.task_id].summary
             /\ response.body.file = PROCESSING_STATUS[request.task_id].file
             /\ response.body.file.task = request.task_id

\* a status request is answered with the whole "processing" record while the
\* task's ingestion is between its two writes to the store and the registry
C19_Witness ==
    /\ request.op = "check_task_status"
    /\ request.task_id \in DOMAIN background
    /\ background[request.task_id].pc = "summarizing"
    /\ HasCollection(collections, CollectionName(request.task_id))
    /\ \E name \in FileNames : response.body = ProcessingRecord(name)

\* the candidates query_document has built for the request being answered
\* when its loop went through
BuiltCandidates ==
    LET fan == FanOut(AskStore, request.outcomes, 1, <<>>)
    IN  IF Asked /\ fan.kind = "done" THEN fan.best_results ELSE <<>>

\* the scores of a candidate's sources added up, last source first
RECURSIVE SourceScoreTotal(_)
SourceScoreTotal(sources) ==
    IF sources = <<>> THEN 0
    ELSE sources[Len(sources)].score
           + SourceScoreTotal(SubSeq(sources, 1, Len(sources) - 1))

\* C20: the avg_score of every candidate query_document builds, by which the
\* candidates are ranked, is the arithmetic mean of the scores of the
\* candidate's sources: their sum divided by their number.
C20_AggregateIsMeanOfSources ==
    \A k \in 1..Len(BuiltCandidates) :
        LET candidate == BuiltCandidates[k]
        IN  /\ candidate.sources # <<>>
            /\ candidate.avg_score.den > 0
            /\ candidate.avg_score.num * Len(candidate.sources)
                 = SourceScoreTotal(candidate.sources) * candidate.avg_score.den

\* two candidates have been built, one from a single source and one from two
\* sources of different scores
C20_Witness ==
    /\ Len(BuiltCandidates) > 1
    /\ \E k \in 1..Len(BuiltCandidates) : Len(BuiltCandidates[k].sources) = 1
    /\ \E k \in 1..Len(BuiltCandidates) :
          /\ Len(BuiltCandidates[k].sources) > 1
          /\ BuiltCandidates[k].sources[1].score
               # BuiltCandidates[k].sources[Len(BuiltCandidates[k].sources)].score

\* the collections of the store that are named from task_id
CollectionsOf(task_id) ==
    {i \in 1..Len(collections) : collections[i].name = CollectionName(task_id)}

\* C21: a successful ingestion of a document with at least one sentence
\* leaves exactly one collection named from the task id, holding one chunk
\* per sentence of the document, in order, each with the window of size 5
\* around its sentence.
C21_OneChunkPerSentence ==
    \A t \in DOMAIN PROCESSING_STATUS :
        PROCESSING_STATUS[t].status = "completed"
          => /\ background[t].sentences >= 1
             /\ Cardinality(CollectionsOf(t)) = 1
             /\ \A i \in CollectionsOf(t) :
                   /\ Len(collections[i].chunks) = background[t].sentences
                   /\ \A k \in 1..Len(collections[i].chunks) :
                         /\ collections[i].chunks[k].sentence = k
                         /\ collections[i].chunks[k].window
                              = Window(k, background[t].sentences)

\* an ingestion of a document of several sentences has completed, after an
\* earlier task's ingestion failed with only part of its chunks stored
C21_Witness ==
    \E t \in Done, u \in Done :
        /\ u < t
        /\ PROCESSING_STATUS[t].status = "completed"
        /\ background[t].sentences > 1
        /\ background[u].fault = "embed"
        /\ \E i \in CollectionsOf(u) : Len(collections[i].chunks) >= 1

\* the page is somewhere in or past its polling loop
InLoop == ui.pc # "start"

\* what holds of the loop's counters wherever the page is
PollCounters ==
    InLoop
      => /\ ui.retries <= max_retries
         /\ ui.polls <= max_retries
         /\ ui.pc = "polling" => ui.polls < max_retries
         /\ ui.pc = "timed_out"
              <=> /\ ui.polls = max_retries
                  /\ ui.last = "still_processing"

\* C22: the polling loop for an uploaded file terminates: every iteration
\* leaves the loop or increments the retry counter, which never passes 60, so
\* at most 60 status requests are sent; and the page reports a timeout
\* exactly when 60 polls have been sent and each was answered by a status
\* other than "completed" and "failed".
C22_PollLoopTerminates ==
    [][/\ PollCounters'
       /\ (ui.pc = "polling" /\ ui' # ui)
            => /\ ui'.polls = ui.polls + 1
               /\ \/ ui'.pc # "polling"
                  \/ ui'.retries = ui.retries + 1
               /\ ui'.pc = "polling" => ui'.last = "still_processing"]_vars

\* the page has given up after 60 polls, all answered "processing"
C22_Witness ==
    /\ InLoop
    /\ ui.pc = "timed_out"
    /\ ui.polls = max_retries
    /\ ui.retries = max_retries
    /\ PROCESSING_STATUS[ui.task_id].status = "processing"

\* C23: a record enters the registry with status "processing", in an upload
\* that is answered 200; an upload whose file cannot be saved is answered 500
\* and adds no record.
C23_FailedSaveLeavesNoRecord ==
    [][/\ \A t \in TaskIds :
             (t \notin DOMAIN PROCESSING_STATUS /\ t \in DOMAIN PROCESSING_STATUS')
               => /\ PROCESSING_STATUS'[t].status = "processing"
                  /\ response'.op = "upload"
                  /\ response'.code = 200
       /\ (Idle /\ response'.op = "upload" /\ request'.save = "raise")
             => /\ response'.code = 500
                /\ DOMAIN PROCESSING_STATUS' = DOMAIN PROCESSING_STATUS]_vars

\* a status or summary request is handled in this step
ReadStep ==
    /\ Idle
    /\ response'.op \in {"check_task_status", "summary"}

\* C24: a status or summary request, the page's own polls and its giving up
\* after the last of them included, leaves the registry, the scheduled
\* ingestions and the store as they were; when the page gives up, the
\* ingestion it was polling for is still scheduled or under way.
C24_ReadsChangeNothing ==
    [][/\ ReadStep
            => /\ PROCESSING_STATUS' = PROCESSING_STATUS
               /\ background' = background
               /\ collections' = collections
       /\ (ui.pc = "polling" /\ ui'.pc = "timed_out")
            => /\ ReadStep
               /\ PROCESSING_STATUS'[ui.task_id].status = "processing"
               /\ background'[ui.task_id].pc \in {"scheduled", "summarizing"}]_vars

\* the page gave up on a task that was still "processing", and the task has
\* completed since
C24_Witness ==
    /\ InLoop
    /\ ui.pc = "timed_out"
    /\ ui.last = "still_processing"
    /\ PROCESSING_STATUS[ui.task_id].status = "completed"
    /\ background[ui.task_id].pc = "done"

\* the sum of the per-question means of the answers that came with sources
RECURSIVE SumOfMeans(_)
SumOfMeans(answered) ==
    IF answered = <<>> THEN [num |-> 0, den |-> 1]
    ELSE LET rest == SumOfMeans(Tail(answered))
             head == answered[1]
         IN  IF head = <<>> THEN rest
             ELSE [num |-> rest.num * Len(head) + SourceScoreTotal(head) * rest.den,
                   den |-> rest.den * Len(head)]

\* the number of answers that came with sources
WithSources(answered) ==
    Cardinality({i \in 1..Len(answered) : answered[i] # <<>>})

\* avg_relevance is total / count
IsMean(avg_relevance, total, count) ==
    avg_relevance.num * total.den * count = total.num * avg_relevance.den

\* C25: after any sequence of answered questions, avg_relevance is the mean
\* of the per-question mean source scores of the questions asked so far,
\* also when some answers came without sources (whether these are left out
\* of the mean or counted in it with a mean of 0).
C25_RunningMeanOfQuestionMeans ==
    (ui.pc = "session" /\ ui.total_questions > 0)
      => \/ /\ WithSources(ui.answered) > 0
            /\ IsMean(ui.avg_relevance, SumOfMeans(ui.answered),
                      WithSources(ui.answered))
         \/ IsMean(ui.avg_relevance, SumOfMeans(ui.answered),
                   Len(ui.answered))

\* C26: the "file" of a task's terminal record, "completed" or "failed", is
\* the "file" its "processing" record had: the uploaded file's name.
C26_FileFixedAtCreation ==
    [][\A t \in DOMAIN PROCESSING_STATUS :
          (/\ PROCESSING_STATUS[t].status = "processing"
           /\ PROCESSING_STATUS'[t].status \in Terminal)
            => /\ "file" \in DOMAIN PROCESSING_STATUS'[t]
               /\ PROCESSING_STATUS'[t].file = PROCESSING_STATUS[t].file]_vars

\* this step is one of upload_file or process_and_update_status for task a
TaskStep(a) ==
    \/ a \notin DOMAIN PROCESSING_STATUS /\ a \in DOMAIN PROCESSING_STATUS'
    \/ a \in DOMAIN background /\ background'[a] # background[a]

\* the collections of a store that are named from task b
CollectionsNamedFor(store, b) ==
    SelectSeq(store, LAMBDA c : c.name = CollectionName(b))

\* the record that the ingestion of a task ends with, from what happened in
\* that ingestion alone
FinalRecord(ingestion, task_id) ==
    IF ingestion.fault = "none"
    THEN CompletedRecord(ingestion.file_path, task_id,
                         generate_summary(ingestion.summary_fault))
    ELSE IF ingestion.fault = "empty" THEN FailedRecord(NoContent)
    ELSE FailedRecord(ErrorText(ingestion.fault))

\* C27: a step of upload_file or process_and_update_status for one task
\* leaves the record and the collection of every other task as they were,
\* and the record a task ends with is the one its own ingestion makes,
\* whatever the other tasks did and in whatever order they finished.
C27_TasksIndependent ==
    [][/\ \A a \in TaskIds, b \in TaskIds :
             (a # b /\ TaskStep(a))
               => /\ b \in DOMAIN PROCESSING_STATUS
                       => PROCESSING_STATUS'[b] = PROCESSING_STATUS[b]
                  /\ b \notin DOMAIN PROCESSING_STATUS
                       => b \notin DOMAIN PROCESSING_STATUS'
                  /\ CollectionsNamedFor(collections', b)
                       = CollectionsNamedFor(collections, b)
       /\ \A t \in DOMAIN background' :
             background'[t].pc = "done"
               => PROCESSING_STATUS'[t] = FinalRecord(background'[t], t)]_vars

\* the ingestions of two tasks overlap and the later upload has finished
\* first: its record is "completed" while the earlier task is still between
\* storing its chunks and its summary
C27_Witness ==
    \E a \in DOMAIN background, b \in Done :
        /\ a < b
        /\ background[a].pc = "summarizing"
        /\ PROCESSING_STATUS[a].status = "processing"
        /\ PROCESSING_STATUS[b].status = "completed"
        /\ CollectionsNamedFor(collections, a) # <<>>
        /\ CollectionsNamedFor(collections, b) # <<>>

====
